---- MODULE Spec2Model ----
(***************************************************************************)
(* Model of src/src/data.c (TizenFaceFilter): the camera screen's UI       *)
(* handlers, the platform camera they drive, and the face overlay shared   *)
(* between the face-detection callback (producer) and the preview-frame    *)
(* callback (consumer) under the facelock mutex.                           *)
(*                                                                         *)
(* Three threads of control interleave: the UI main loop (button handlers, *)
(* each run to completion), the platform thread delivering face-detection  *)
(* results and the platform thread delivering preview frames.  The two     *)
(* callbacks are modelled one shared-memory access per step.               *)
(***************************************************************************)
EXTENDS Integers, Sequences, FiniteSets, TLC

\* Capacity of cam_face.  The macro is defined in a header of the repository
\* that is not part of src/; the model takes its value from MaxFaces.
MaxFaces == 2
MAXIMUM_FACE_NUMBER == MaxFaces

\* Row stride hardcoded in the masking loop (data.c:369, 372).
Stride == 640

NULL == <<>>
FREE == "free"
PRODUCER == "producer"
CONSUMER == "consumer"

\* Contents of malloc'ed memory that was never written.
Uninit == [x |-> -1, y |-> -1, width |-> -1, height |-> -1]

\* The face rectangles the platform reports in this model: one in the first
\* row, one 200 rows down.
FaceRects ==
  << [x |-> 1, y |-> 0, width |-> 2, height |-> 1],
     [x |-> 2, y |-> 200, width |-> 1, height |-> 2] >>

NRects == Len(FaceRects)

\* The faces array of a detection callback: n entries starting at rectangle
\* `base` (consecutive entries differ); base = 0 is the NULL pointer.
FacesArg(base, n) ==
  IF base = 0 THEN NULL
  ELSE [k \in 1..n |-> FaceRects[((base + k - 2) % NRects) + 1]]

\* The count values the platform delivers: negative, zero, up to and above
\* the capacity.
Counts == (-1)..(MAXIMUM_FACE_NUMBER + 1)

VARIABLES
  cam_data,      \* the application's cam_prev, face_running and whether
                 \* g_camera holds a handle
  widgets,       \* preview button label, face button disabled flag
  camera,        \* platform camera: state, preview callback, face detection
  lock_init,     \* pthread_mutex_init(&facelock) has run
  camera_directory, \* the pointer camera_directory: never set, allocated
                 \* by storage_get_directory, or already freed
  facelock,      \* owner of the mutex: FREE, PRODUCER or CONSUMER
  cam_face,      \* the shared face buffer (NULL until allocated)
  cam_face_num,  \* number of valid entries of cam_face
  p_pc,          \* position of __camera_face_detected_cb
  p_faces,       \* its argument faces
  p_arg_count,   \* its argument count as delivered
  p_count,       \* its local count (clamped at data.c:332)
  c_pc,          \* position of __camera_preview_cb
  c_guard,       \* value of the condition at data.c:368
  zeroed,        \* Y-plane indices of the current frame set to 0
  c_acq,         \* the condition of data.c:368 held when facelock was acquired
  crashed,       \* the process died on a write outside its memory
  ui_log         \* the last handler run by UISpec and the platform calls it made

vars == << cam_data, widgets, camera, lock_init, camera_directory, facelock, cam_face,
           cam_face_num, p_pc, p_faces, p_arg_count, p_count, c_pc, c_guard,
           zeroed, c_acq, crashed, ui_log >>

ui_vars == << cam_data, widgets, camera >>
shared_vars == << facelock, cam_face, cam_face_num >>
p_vars == << p_pc, p_faces, p_arg_count, p_count >>
c_vars == << c_pc, c_guard, zeroed, c_acq >>

Min(a, b) == IF a < b THEN a ELSE b


(***************************************************************************)
(* The platform camera, as the handlers use it.  A camera is a record       *)
(* [state, preview_cb, focus_cb, face_detection, face_supported,            *)
(* resolution]; `ok` is whether the device would carry the request out; a   *)
(* call in a state it is not legal in fails whatever `ok` is, and so does a *)
(* call made with g_camera == NULL: the handlers pass g_camera /\ ok.       *)
(* Each call returns [err, cam].                                            *)
(***************************************************************************)
\* The preview resolution of no camera.
NoResolution == << 0, 0 >>

CameraStates == {"NONE", "CREATED", "PREVIEW", "CAPTURING", "CAPTURED"}

camera_start_preview(cam, ok) ==
  IF ok /\ cam.state \in {"CREATED", "CAPTURED"}
  THEN [err |-> FALSE, cam |-> [cam EXCEPT !.state = "PREVIEW"]]
  ELSE [err |-> TRUE, cam |-> cam]

\* Stopping the preview also ends a running face detection.
camera_stop_preview(cam, ok) ==
  IF ok /\ cam.state = "PREVIEW"
  THEN [err |-> FALSE,
        cam |-> [cam EXCEPT !.state = "CREATED", !.face_detection = FALSE]]
  ELSE [err |-> TRUE, cam |-> cam]

camera_set_preview_cb(cam, ok) ==
  IF ok /\ cam.state # "NONE"
  THEN [err |-> FALSE, cam |-> [cam EXCEPT !.preview_cb = TRUE]]
  ELSE [err |-> TRUE, cam |-> cam]

camera_unset_preview_cb(cam, ok) ==
  IF ok /\ cam.state # "NONE"
  THEN [err |-> FALSE, cam |-> [cam EXCEPT !.preview_cb = FALSE]]
  ELSE [err |-> TRUE, cam |-> cam]

camera_start_face_detection(cam, ok) ==
  IF ok /\ cam.state = "PREVIEW" /\ cam.face_supported
  THEN [err |-> FALSE, cam |-> [cam EXCEPT !.face_detection = TRUE]]
  ELSE [err |-> TRUE, cam |-> cam]

camera_stop_face_detection(cam, ok) ==
  IF ok /\ cam.state # "NONE"
  THEN [err |-> FALSE, cam |-> [cam EXCEPT !.face_detection = FALSE]]
  ELSE [err |-> TRUE, cam |-> cam]

\* The resolution is taken when it is one the device supports.
camera_set_preview_resolution(cam, width, height, supported, ok) ==
  IF ok /\ cam.state = "CREATED"
        /\ \E k \in 1..Len(supported) : supported[k] = << width, height >>
  THEN [err |-> FALSE, cam |-> [cam EXCEPT !.resolution = << width, height >>]]
  ELSE [err |-> TRUE, cam |-> cam]

camera_set_focus_changed_cb(cam, ok) ==
  IF ok /\ cam.state # "NONE"
  THEN [err |-> FALSE, cam |-> [cam EXCEPT !.focus_cb = TRUE]]
  ELSE [err |-> TRUE, cam |-> cam]

camera_unset_focus_changed_cb(cam, ok) ==
  IF ok /\ cam.state # "NONE"
  THEN [err |-> FALSE, cam |-> [cam EXCEPT !.focus_cb = FALSE]]
  ELSE [err |-> TRUE, cam |-> cam]

\* The application never starts focusing, so there is nothing to cancel.
camera_cancel_focusing(cam, ok) ==
  [err |-> ~(ok /\ cam.state # "NONE"), cam |-> cam]

\* A destroyed camera delivers nothing any more.  The device carries a
\* destroy out in every state; ok is whether the call has a handle.
camera_destroy(cam, ok) ==
  IF ok /\ cam.state # "NONE"
  THEN [err |-> FALSE,
        cam |-> [state |-> "NONE", preview_cb |-> FALSE, focus_cb |-> FALSE,
                 face_detection |-> FALSE,
                 face_supported |-> cam.face_supported,
                 resolution |-> NoResolution]]
  ELSE [err |-> TRUE, cam |-> cam]

\* Capturing ends the preview and with it a running face detection.
camera_start_capture(cam, ok) ==
  IF ok /\ cam.state = "PREVIEW"
  THEN [err |-> FALSE,
        cam |-> [cam EXCEPT !.state = "CAPTURING", !.face_detection = FALSE]]
  ELSE [err |-> TRUE, cam |-> cam]

\* The record a handler's platform call leaves in ui_log: the function, the
\* camera state it was called in and whether it returned an error.
Call(fn, cam, r) == [fn |-> fn, from |-> cam.state, err |-> r.err]

NoLog == [handler |-> "none", calls |-> << >>]

(***************************************************************************)
(* create_buttons_in_main_window (data.c:527-702).  `path` is the return    *)
(* the function took: after a failed camera_create (570), after a failed    *)
(* camera_get_state, camera_set_display or                                  *)
(* camera_foreach_supported_preview_resolution (580, 617, 630), after a     *)
(* failed camera_set_preview_cb (664), after a failed                       *)
(* storage_foreach_device_supported (688), or at the end of the function.   *)
(* A failed camera_set_preview_resolution (636) or                          *)
(* camera_set_focus_changed_cb (654) is logged and the function goes on.    *)
(* cam_data, cam_face and cam_face_num are zero-initialised globals.        *)
(***************************************************************************)
\* _preview_resolution_cb (data.c:129-138): keeps the width and height it is
\* called with when the width is below 700.
_preview_resolution_cb(resolution, width, height) ==
  IF width < 700 THEN << width, height >> ELSE resolution

\* camera_foreach_supported_preview_resolution (data.c:624): the callback is
\* called for every supported resolution in turn, so the last one accepted
\* stays.
RECURSIVE camera_foreach_supported_preview_resolution(_, _)
camera_foreach_supported_preview_resolution(supported, resolution) ==
  IF supported = << >> THEN resolution
  ELSE camera_foreach_supported_preview_resolution(
         Tail(supported),
         _preview_resolution_cb(resolution, Head(supported)[1], Head(supported)[2]))

\* The lists of supported preview resolutions of the devices of this model;
\* the last has no resolution narrower than 700.
SupportedResolutions ==
  { << << 320, 240 >>, << 640, 480 >>, << 1280, 720 >> >>,
    << << 1280, 720 >>, << 640, 480 >>, << 320, 240 >> >>,
    << << 1280, 720 >> >> }

\* The preview resolution a device has before the application sets one: one
\* of those it supports.
DeviceResolutions == { << 1280, 720 >> }

\* int resolution[2] (data.c:621) has no initialiser: when the callback
\* accepts no resolution, line 634 passes on whatever the stack held, which
\* may or may not be a resolution the device supports.
IndeterminateResolutions ==
  { << 0, 0 >>, << 32569, -25579523 >>, << 1280, 720 >> }

SetupPaths ==
  {"create_failed", "early_return", "setcb_failed", "storage_failed", "complete"}

\* static char *camera_directory (data.c:40) and what free() makes of it.
DirectoryStates == {"null", "allocated", "freed"}

\* ok_resolution, ok_focus and ok_directory are the outcomes of the three
\* calls whose failure does not end the function; storage_get_directory
\* (data.c:692-693) sets camera_directory only when it succeeds.
create_buttons_in_main_window(path, supported, resolutions, device, stack, ok_resolution, ok_focus, ok_directory) ==
  LET created == path # "create_failed"
      registered == path \in {"storage_failed", "complete"}
      cam0 == [state |-> IF created THEN "CREATED" ELSE "NONE",
               preview_cb |-> FALSE,
               focus_cb |-> FALSE,
               face_detection |-> FALSE,
               face_supported |-> supported,
               resolution |-> IF created THEN device ELSE NoResolution]
      resolution == camera_foreach_supported_preview_resolution(resolutions, stack)
      r1 == camera_set_preview_resolution(cam0, resolution[1], resolution[2],
                                          resolutions, ok_resolution)
      r2 == camera_set_focus_changed_cb(r1.cam, ok_focus)
      r3 == camera_set_preview_cb(r2.cam, registered)
  IN
  [ cam_data |-> [cam_prev |-> FALSE, face_running |-> FALSE,
                  g_camera |-> created],
    widgets |-> [preview_bt_text |-> "Start preview", face_bt_disabled |-> TRUE],
    camera |-> IF path \in {"create_failed", "early_return"} THEN cam0
               ELSE r3.cam,
    cam_face |-> IF registered /\ supported
                 THEN [k \in 1..MAXIMUM_FACE_NUMBER |-> Uninit]
                 ELSE NULL,
    lock_init |-> (path = "complete"),
    camera_directory |-> IF path = "complete" /\ ok_directory
                         THEN "allocated" ELSE "null" ]

Init ==
  \E path \in SetupPaths, supported \in BOOLEAN,
     resolutions \in SupportedResolutions, device \in DeviceResolutions,
     stack \in IndeterminateResolutions,
     ok_resolution \in BOOLEAN, ok_focus \in BOOLEAN, ok_directory \in BOOLEAN :
    LET s == create_buttons_in_main_window(path, supported, resolutions, device,
                                           stack, ok_resolution, ok_focus,
                                           ok_directory) IN
      /\ cam_data = s.cam_data
      /\ widgets = s.widgets
      /\ camera = s.camera
      /\ cam_face = s.cam_face
      /\ lock_init = s.lock_init
      /\ camera_directory = s.camera_directory
      /\ cam_face_num = 0
      /\ facelock = FREE
      /\ p_pc = "idle" /\ p_faces = NULL /\ p_arg_count = 0 /\ p_count = 0
      /\ c_pc = "idle" /\ c_guard = FALSE /\ zeroed = {} /\ c_acq = FALSE
      /\ crashed = FALSE
      /\ ui_log = NoLog

(***************************************************************************)
(* __camera_cb_preview (data.c:396-467): the "Start/Stop preview" button.   *)
(* ok1, ok2 are the outcomes the device would give its two platform calls.   *)
(***************************************************************************)
\* Variant: the stop branch without elm_object_disabled_set at data.c:464.
__camera_cb_preview_keeps_face_bt(cd, w, cam, ok1, ok2) ==
  IF ~cd.cam_prev
  THEN LET r1 == camera_start_preview(cam, cd.g_camera /\ ok1)
           c1 == Call("camera_start_preview", cam, r1) IN
       IF r1.err THEN [cd |-> cd, w |-> w, cam |-> r1.cam, calls |-> << c1 >>]
       ELSE LET r2 == camera_set_preview_cb(r1.cam, cd.g_camera /\ ok2)
                c2 == Call("camera_set_preview_cb", r1.cam, r2) IN
            IF r2.err
            THEN [cd |-> cd, w |-> w, cam |-> r2.cam, calls |-> << c1, c2 >>]
            ELSE [cd |-> [cd EXCEPT !.cam_prev = TRUE],
                  w |-> [preview_bt_text |-> "Stop preview",
                         face_bt_disabled |-> FALSE],
                  cam |-> r2.cam, calls |-> << c1, c2 >>]
  ELSE LET r1 == camera_unset_preview_cb(cam, cd.g_camera /\ ok1)
           c1 == Call("camera_unset_preview_cb", cam, r1) IN
       IF r1.err THEN [cd |-> cd, w |-> w, cam |-> r1.cam, calls |-> << c1 >>]
       ELSE LET r2 == camera_stop_preview(r1.cam, cd.g_camera /\ ok2)
                c2 == Call("camera_stop_preview", r1.cam, r2) IN
            IF r2.err
            THEN [cd |-> cd, w |-> w, cam |-> r2.cam, calls |-> << c1, c2 >>]
            ELSE [cd |-> [cd EXCEPT !.cam_prev = FALSE, !.face_running = FALSE],
                  w |-> [w EXCEPT !.preview_bt_text = "Start preview"],
                  cam |-> r2.cam, calls |-> << c1, c2 >>]

\* Variant: the stop branch without face_running = false at data.c:459.
__camera_cb_preview_keeps_face_running(cd, w, cam, ok1, ok2) ==
  IF ~cd.cam_prev
  THEN LET r1 == camera_start_preview(cam, cd.g_camera /\ ok1)
           c1 == Call("camera_start_preview", cam, r1) IN
       IF r1.err THEN [cd |-> cd, w |-> w, cam |-> r1.cam, calls |-> << c1 >>]
       ELSE LET r2 == camera_set_preview_cb(r1.cam, cd.g_camera /\ ok2)
                c2 == Call("camera_set_preview_cb", r1.cam, r2) IN
            IF r2.err
            THEN [cd |-> cd, w |-> w, cam |-> r2.cam, calls |-> << c1, c2 >>]
            ELSE [cd |-> [cd EXCEPT !.cam_prev = TRUE],
                  w |-> [preview_bt_text |-> "Stop preview",
                         face_bt_disabled |-> FALSE],
                  cam |-> r2.cam, calls |-> << c1, c2 >>]
  ELSE LET r1 == camera_unset_preview_cb(cam, cd.g_camera /\ ok1)
           c1 == Call("camera_unset_preview_cb", cam, r1) IN
       IF r1.err THEN [cd |-> cd, w |-> w, cam |-> r1.cam, calls |-> << c1 >>]
       ELSE LET r2 == camera_stop_preview(r1.cam, cd.g_camera /\ ok2)
                c2 == Call("camera_stop_preview", r1.cam, r2) IN
            IF r2.err
            THEN [cd |-> cd, w |-> w, cam |-> r2.cam, calls |-> << c1, c2 >>]
            ELSE [cd |-> [cd EXCEPT !.cam_prev = FALSE],
                  w |-> [preview_bt_text |-> "Start preview",
                         face_bt_disabled |-> TRUE],
                  cam |-> r2.cam, calls |-> << c1, c2 >>]

\* Variant: without the returns after a failed first call (data.c:413, 445).
__camera_cb_preview_no_return(cd, w, cam, ok1, ok2) ==
  IF ~cd.cam_prev
  THEN LET r1 == camera_start_preview(cam, cd.g_camera /\ ok1)
           c1 == Call("camera_start_preview", cam, r1) IN
       LET r2 == camera_set_preview_cb(r1.cam, cd.g_camera /\ ok2)
                c2 == Call("camera_set_preview_cb", r1.cam, r2) IN
            IF r2.err
            THEN [cd |-> cd, w |-> w, cam |-> r2.cam, calls |-> << c1, c2 >>]
            ELSE [cd |-> [cd EXCEPT !.cam_prev = TRUE],
                  w |-> [preview_bt_text |-> "Stop preview",
                         face_bt_disabled |-> FALSE],
                  cam |-> r2.cam, calls |-> << c1, c2 >>]
  ELSE LET r1 == camera_unset_preview_cb(cam, cd.g_camera /\ ok1)
           c1 == Call("camera_unset_preview_cb", cam, r1) IN
       LET r2 == camera_stop_preview(r1.cam, cd.g_camera /\ ok2)
                c2 == Call("camera_stop_preview", r1.cam, r2) IN
            IF r2.err
            THEN [cd |-> cd, w |-> w, cam |-> r2.cam, calls |-> << c1, c2 >>]
            ELSE [cd |-> [cd EXCEPT !.cam_prev = FALSE, !.face_running = FALSE],
                  w |-> [preview_bt_text |-> "Start preview",
                         face_bt_disabled |-> TRUE],
                  cam |-> r2.cam, calls |-> << c1, c2 >>]

\* The handler as written.  calls lists its platform calls in order.
__camera_cb_preview(cd, w, cam, ok1, ok2) ==
  IF ~cd.cam_prev
  THEN LET r1 == camera_start_preview(cam, cd.g_camera /\ ok1)
           c1 == Call("camera_start_preview", cam, r1) IN
       IF r1.err THEN [cd |-> cd, w |-> w, cam |-> r1.cam, calls |-> << c1 >>]
       ELSE LET r2 == camera_set_preview_cb(r1.cam, cd.g_camera /\ ok2)
                c2 == Call("camera_set_preview_cb", r1.cam, r2) IN
            IF r2.err
            THEN [cd |-> cd, w |-> w, cam |-> r2.cam, calls |-> << c1, c2 >>]
            ELSE [cd |-> [cd EXCEPT !.cam_prev = TRUE],
                  w |-> [preview_bt_text |-> "Stop preview",
                         face_bt_disabled |-> FALSE],
                  cam |-> r2.cam, calls |-> << c1, c2 >>]
  ELSE LET r1 == camera_unset_preview_cb(cam, cd.g_camera /\ ok1)
           c1 == Call("camera_unset_preview_cb", cam, r1) IN
       IF r1.err THEN [cd |-> cd, w |-> w, cam |-> r1.cam, calls |-> << c1 >>]
       ELSE LET r2 == camera_stop_preview(r1.cam, cd.g_camera /\ ok2)
                c2 == Call("camera_stop_preview", r1.cam, r2) IN
            IF r2.err
            THEN [cd |-> cd, w |-> w, cam |-> r2.cam, calls |-> << c1, c2 >>]
            ELSE [cd |-> [cd EXCEPT !.cam_prev = FALSE, !.face_running = FALSE],
                  w |-> [preview_bt_text |-> "Start preview",
                         face_bt_disabled |-> TRUE],
                  cam |-> r2.cam, calls |-> << c1, c2 >>]

ClickPreview ==
  /\ ~crashed
  /\ \E ok1 \in BOOLEAN, ok2 \in BOOLEAN :
       LET r == __camera_cb_preview(cam_data, widgets, camera, ok1, ok2) IN
         /\ cam_data' = r.cd
         /\ widgets' = r.w
         /\ camera' = r.cam
  /\ UNCHANGED << lock_init, camera_directory, ui_log, shared_vars, p_vars, c_vars, crashed >>

(***************************************************************************)
(* __camera_cb_face (data.c:343-363): the "Face Detect" button.  A disabled *)
(* button delivers no click.                                                *)
(***************************************************************************)
\* Variant: face_running flipped whatever the platform call returned.
__camera_cb_face_flips_always(cd, cam, ok) ==
  IF cd.face_running
  THEN LET r == camera_stop_face_detection(cam, cd.g_camera /\ ok)
           c == Call("camera_stop_face_detection", cam, r) IN
       [cd |-> [cd EXCEPT !.face_running = FALSE], cam |-> r.cam,
        calls |-> << c >>]
  ELSE LET r == camera_start_face_detection(cam, cd.g_camera /\ ok)
           c == Call("camera_start_face_detection", cam, r) IN
       [cd |-> [cd EXCEPT !.face_running = TRUE], cam |-> r.cam,
        calls |-> << c >>]

__camera_cb_face(cd, cam, ok) ==
  IF cd.face_running
  THEN LET r == camera_stop_face_detection(cam, cd.g_camera /\ ok)
           c == Call("camera_stop_face_detection", cam, r) IN
       IF r.err THEN [cd |-> cd, cam |-> r.cam, calls |-> << c >>]
       ELSE [cd |-> [cd EXCEPT !.face_running = FALSE], cam |-> r.cam,
             calls |-> << c >>]
  ELSE LET r == camera_start_face_detection(cam, cd.g_camera /\ ok)
           c == Call("camera_start_face_detection", cam, r) IN
       IF r.err THEN [cd |-> cd, cam |-> r.cam, calls |-> << c >>]
       ELSE [cd |-> [cd EXCEPT !.face_running = TRUE], cam |-> r.cam,
             calls |-> << c >>]

ClickFace ==
  /\ ~crashed
  /\ ~widgets.face_bt_disabled
  /\ \E ok \in BOOLEAN :
       LET r == __camera_cb_face(cam_data, camera, ok) IN
         /\ cam_data' = r.cd
         /\ camera' = r.cam
  /\ UNCHANGED << widgets, lock_init, camera_directory, ui_log, shared_vars, p_vars, c_vars, crashed >>


(***************************************************************************)
(* camera_pop_cb (data.c:472-493): the camera screen is closed.  None of    *)
(* its five platform calls is checked; cam_prev and g_camera are cleared    *)
(* whatever they returned, face_running is left as it is.  cam_face is not  *)
(* freed and callbacks in progress run on.  ok[1..4] are the outcomes of    *)
(* the calls before camera_destroy.  The last statement (data.c:492) frees  *)
(* camera_directory and leaves the pointer as it is: free(NULL) does        *)
(* nothing, the first free of an allocated directory releases it, and any   *)
(* later call frees the same block again (double_free).                     *)
(***************************************************************************)
free(ptr) ==
  [ptr |-> IF ptr = "null" THEN "null" ELSE "freed",
   double_free |-> (ptr = "freed")]

camera_pop_cb(cd, cam, dir, ok) ==
  LET r1 == camera_cancel_focusing(cam, cd.g_camera /\ ok[1])
      r2 == camera_stop_preview(r1.cam, cd.g_camera /\ ok[2])
      r3 == camera_unset_preview_cb(r2.cam, cd.g_camera /\ ok[3])
      r4 == camera_unset_focus_changed_cb(r3.cam, cd.g_camera /\ ok[4])
      r5 == camera_destroy(r4.cam, cd.g_camera)
      r6 == free(dir)
  IN [cd |-> [cd EXCEPT !.cam_prev = FALSE, !.g_camera = FALSE],
      cam |-> r5.cam,
      dir |-> r6.ptr,
      double_free |-> r6.double_free,
      calls |-> << Call("camera_cancel_focusing", cam, r1),
                   Call("camera_stop_preview", r1.cam, r2),
                   Call("camera_unset_preview_cb", r2.cam, r3),
                   Call("camera_unset_focus_changed_cb", r3.cam, r4),
                   Call("camera_destroy", r4.cam, r5) >>]

\* The states camera_pop_cb can leave, over the outcomes of its calls.
PopResults(cd, cam, dir) ==
  { [cd |-> r.cd, cam |-> r.cam, dir |-> r.dir, double_free |-> r.double_free] :
      r \in { camera_pop_cb(cd, cam, dir, ok) : ok \in [1..4 -> BOOLEAN] } }

\* Freeing a block twice is undefined: the allocator either detects it and
\* aborts the process, or does not and the handler returns.
DoubleFreeOutcomes(double_free) ==
  IF double_free THEN {TRUE, FALSE} ELSE {FALSE}

CloseScreen ==
  /\ ~crashed
  /\ \E r \in PopResults(cam_data, camera, camera_directory) :
       /\ cam_data' = r.cd
       /\ camera' = r.cam
       /\ camera_directory' = r.dir
       /\ crashed' \in DoubleFreeOutcomes(r.double_free)
  /\ UNCHANGED << widgets, lock_init, ui_log, shared_vars, p_vars, c_vars >>

(***************************************************************************)
(* Taking a photo.  _camera_focus_cb (data.c:264-276) starts a capture when *)
(* the platform reports the focus state FOCUSED; the platform then delivers *)
(* the image and, with the camera in the state CAPTURED, calls              *)
(* _camera_completed_cb (data.c:150-194).                                   *)
(***************************************************************************)
FocusStates == {"RELEASED", "ONGOING", "FOCUSED", "FAILED"}

_camera_focus_cb(state, cd, cam, ok) ==
  IF state = "FOCUSED"
  THEN LET r == camera_start_capture(cam, cd.g_camera /\ ok) IN
       [cam |-> r.cam, calls |-> << Call("camera_start_capture", cam, r) >>]
  ELSE [cam |-> cam, calls |-> << >>]

\* Variant: a handler that returns at the first failed call.
_camera_completed_cb_stops_on_error(cd, cam, ok) ==
  LET r1 == camera_start_preview(cam, cd.g_camera /\ ok[1])
      r2 == camera_stop_preview(r1.cam, cd.g_camera /\ ok[2])
      r3 == camera_start_preview(r2.cam, cd.g_camera /\ ok[3])
      r4 == camera_stop_preview(r3.cam, cd.g_camera /\ ok[4])
      r5 == camera_start_preview(r4.cam, cd.g_camera /\ ok[5])
      c1 == Call("camera_start_preview", cam, r1)
      c2 == Call("camera_stop_preview", r1.cam, r2)
      c3 == Call("camera_start_preview", r2.cam, r3)
      c4 == Call("camera_stop_preview", r3.cam, r4)
      c5 == Call("camera_start_preview", r4.cam, r5)
  IN IF r1.err THEN [cam |-> r1.cam, calls |-> << c1 >>]
     ELSE IF r2.err THEN [cam |-> r2.cam, calls |-> << c1, c2 >>]
     ELSE IF r3.err THEN [cam |-> r3.cam, calls |-> << c1, c2, c3 >>]
     ELSE IF r4.err THEN [cam |-> r4.cam, calls |-> << c1, c2, c3, c4 >>]
     ELSE [cam |-> r5.cam, calls |-> << c1, c2, c3, c4, c5 >>]

\* ok[i] is the outcome of the i-th platform call.  No error is a return.
_camera_completed_cb(cd, cam, ok) ==
  LET r1 == camera_start_preview(cam, cd.g_camera /\ ok[1])
      r2 == camera_stop_preview(r1.cam, cd.g_camera /\ ok[2])
      r3 == camera_start_preview(r2.cam, cd.g_camera /\ ok[3])
      r4 == camera_stop_preview(r3.cam, cd.g_camera /\ ok[4])
      r5 == camera_start_preview(r4.cam, cd.g_camera /\ ok[5])
  IN [cam |-> r5.cam,
      calls |-> << Call("camera_start_preview", cam, r1),
                   Call("camera_stop_preview", r1.cam, r2),
                   Call("camera_start_preview", r2.cam, r3),
                   Call("camera_stop_preview", r3.cam, r4),
                   Call("camera_start_preview", r4.cam, r5) >>]

(***************************************************************************)
(* The main loop on its own, every handler leaving in ui_log the platform   *)
(* calls it made.  The two camera callbacks do not run here: they touch     *)
(* neither the camera nor the flags nor the widgets.                        *)
(***************************************************************************)
UI_ClickPreview ==
  /\ ~crashed
  /\ \E ok1 \in BOOLEAN, ok2 \in BOOLEAN :
       LET r == __camera_cb_preview(cam_data, widgets, camera, ok1, ok2) IN
         /\ cam_data' = r.cd
         /\ widgets' = r.w
         /\ camera' = r.cam
         /\ ui_log' = [handler |-> "__camera_cb_preview", calls |-> r.calls]
  /\ UNCHANGED << lock_init, camera_directory, shared_vars, p_vars, c_vars, crashed >>

UI_ClickFace ==
  /\ ~crashed
  /\ ~widgets.face_bt_disabled
  /\ \E ok \in BOOLEAN :
       LET r == __camera_cb_face(cam_data, camera, ok) IN
         /\ cam_data' = r.cd
         /\ camera' = r.cam
         /\ ui_log' = [handler |-> "__camera_cb_face", calls |-> r.calls]
  /\ UNCHANGED << widgets, lock_init, camera_directory, shared_vars, p_vars, c_vars, crashed >>

\* The platform reports a focus change while the preview runs.
UI_FocusChanged ==
  /\ ~crashed
  /\ camera.focus_cb
  /\ camera.state = "PREVIEW"
  /\ \E state \in FocusStates, ok \in BOOLEAN :
       LET r == _camera_focus_cb(state, cam_data, camera, ok) IN
         /\ camera' = r.cam
         /\ ui_log' = [handler |-> "_camera_focus_cb", calls |-> r.calls]
  /\ UNCHANGED << cam_data, widgets, lock_init, camera_directory, shared_vars, p_vars, c_vars,
                  crashed >>

\* _camera_capturing_cb (data.c:224-253).  With an image it formats
\* "<camera_directory>/cam<time>.jpg" (data.c:235; a NULL camera_directory
\* is printed as "(null)"), opens that path (data.c:239) and writes the image
\* through the FILE pointer without testing it (data.c:242).  Whether fopen
\* gives a file depends on the file system: the directory named by the path
\* exists and can be written, or not.  fwrite through a NULL FILE pointer
\* ends the process.  Without an image nothing is opened or written.
ImageDirectory(dir) == IF dir = "null" THEN "(null)" ELSE "camera_directory"

_camera_capturing_cb(image, dir, ok_fopen) ==
  IF image
  THEN [saved_in |-> IF ok_fopen THEN ImageDirectory(dir) ELSE "none",
        fault |-> ~ok_fopen]
  ELSE [saved_in |-> "none", fault |-> FALSE]

\* The platform has the image: _camera_capturing_cb (passed at data.c:268)
\* is called and, when it returns, the camera is CAPTURED.
UI_Captured ==
  /\ ~crashed
  /\ camera.state = "CAPTURING"
  /\ \E image \in BOOLEAN, ok_fopen \in BOOLEAN :
       LET r == _camera_capturing_cb(image, camera_directory, ok_fopen) IN
         /\ crashed' = r.fault
         /\ camera' = IF r.fault THEN camera
                      ELSE [camera EXCEPT !.state = "CAPTURED"]
         /\ ui_log' = [handler |-> "_camera_capturing_cb", calls |-> << >>]
  /\ UNCHANGED << cam_data, widgets, lock_init, camera_directory, shared_vars,
                  p_vars, c_vars >>

UI_CloseScreen ==
  /\ ~crashed
  /\ \E ok \in [1..4 -> BOOLEAN] :
       LET r == camera_pop_cb(cam_data, camera, camera_directory, ok) IN
         /\ cam_data' = r.cd
         /\ camera' = r.cam
         /\ camera_directory' = r.dir
         /\ crashed' \in DoubleFreeOutcomes(r.double_free)
         /\ ui_log' = [handler |-> "camera_pop_cb", calls |-> r.calls]
  /\ UNCHANGED << widgets, lock_init, shared_vars, p_vars, c_vars >>

UI_CaptureCompleted ==
  /\ ~crashed
  /\ camera.state = "CAPTURED"
  /\ \E ok \in [1..5 -> BOOLEAN] :
       LET r == _camera_completed_cb(cam_data, camera, ok) IN
         /\ camera' = r.cam
         /\ ui_log' = [handler |-> "_camera_completed_cb", calls |-> r.calls]
  /\ UNCHANGED << cam_data, widgets, lock_init, camera_directory, shared_vars, p_vars, c_vars,
                  crashed >>

(***************************************************************************)
(* facelock.  A pthread mutex in static storage is all zero bits, which is  *)
(* what pthread_mutex_init(&facelock, NULL) writes, so trylock and unlock   *)
(* behave the same whether or not lock_init is set.                         *)
(***************************************************************************)
\* Variant: a trylock that reports success whoever holds the mutex.
trylock_ignores_owner(lock, who) == [ok |-> TRUE, lock |-> who]

pthread_mutex_trylock(lock, who) ==
  IF lock = FREE THEN [ok |-> TRUE, lock |-> who]
  ELSE [ok |-> FALSE, lock |-> lock]

\* Variant: an unlock that leaves the mutex with its owner.
unlock_keeps_owner(lock) == lock

pthread_mutex_unlock(lock) == FREE

(***************************************************************************)
(* __camera_face_detected_cb (data.c:323-341), the producer.                *)
(***************************************************************************)
\* Variant: the store branch taken without the faces != NULL test.
FaceDetectedPath_no_null_check(faces, count) ==
  IF count = 0 THEN "zero"
  ELSE IF count > 0 THEN "store"
  ELSE "ignore"

\* Which branch an invocation takes (data.c:325, 330).
FaceDetectedPath(faces, count) ==
  IF count = 0 THEN "zero"
  ELSE IF count > 0 /\ faces # NULL THEN "store"
  ELSE "ignore"

\* Variant: the count used as delivered.
ClampCount_none(count) == count

\* data.c:332
ClampCount(count) ==
  IF count > MAXIMUM_FACE_NUMBER THEN MAXIMUM_FACE_NUMBER ELSE count

\* Variant: a copy one entry short.
memcpy_short(dst, src, n) ==
  [k \in DOMAIN dst |-> IF k <= n - 1 /\ k \in DOMAIN src THEN src[k] ELSE dst[k]]

\* memcpy(dst, src, sizeof(camera_detected_face_s) * n), data.c:335
memcpy(dst, src, n) ==
  [k \in DOMAIN dst |-> IF k <= n /\ k \in DOMAIN src THEN src[k] ELSE dst[k]]

\* The platform delivers a result only while face detection runs.
FaceDetectedArgs ==
  { [faces |-> FacesArg(base, IF count > 0 THEN count ELSE 1), count |-> count] :
      base \in 0..NRects, count \in Counts }

\* data.c:325-328: count == 0, written without taking facelock.
FD_CountZero ==
  /\ ~crashed /\ p_pc = "idle" /\ camera.face_detection
  /\ \E a \in FaceDetectedArgs :
       /\ FaceDetectedPath(a.faces, a.count) = "zero"
       /\ p_faces' = a.faces /\ p_arg_count' = a.count /\ p_count' = a.count
       /\ cam_face_num' = a.count
  /\ p_pc' = "ret_zero"
  /\ UNCHANGED << ui_vars, lock_init, camera_directory, ui_log, facelock, cam_face, c_vars, crashed >>

\* data.c:330 false: count < 0, or faces == NULL.
FD_Ignored ==
  /\ ~crashed /\ p_pc = "idle" /\ camera.face_detection
  /\ \E a \in FaceDetectedArgs :
       /\ FaceDetectedPath(a.faces, a.count) = "ignore"
       /\ p_faces' = a.faces /\ p_arg_count' = a.count /\ p_count' = a.count
  /\ p_pc' = "ret_ignored"
  /\ UNCHANGED << ui_vars, lock_init, camera_directory, ui_log, shared_vars, c_vars, crashed >>

\* data.c:332-334: clamp, then trylock; a failed trylock skips the body.
FD_TryLock ==
  /\ ~crashed /\ p_pc = "idle" /\ camera.face_detection
  /\ \E a \in FaceDetectedArgs :
       /\ FaceDetectedPath(a.faces, a.count) = "store"
       /\ p_faces' = a.faces /\ p_arg_count' = a.count
       /\ p_count' = ClampCount(a.count)
  /\ LET t == pthread_mutex_trylock(facelock, PRODUCER) IN
       /\ facelock' = t.lock
       /\ p_pc' = IF t.ok THEN "copy" ELSE "ret_dropped"
  /\ UNCHANGED << ui_vars, lock_init, camera_directory, ui_log, cam_face, cam_face_num, c_vars, crashed >>

\* data.c:335
FD_Memcpy ==
  /\ ~crashed /\ p_pc = "copy" /\ cam_face # NULL
  /\ cam_face' = memcpy(cam_face, p_faces, p_count)
  /\ p_pc' = "setnum"
  /\ UNCHANGED << ui_vars, lock_init, camera_directory, ui_log, facelock, cam_face_num, p_faces,
                  p_arg_count, p_count, c_vars, crashed >>

\* data.c:335 with cam_face never allocated: a write through NULL ends the
\* process.
FD_MemcpyNull ==
  /\ ~crashed /\ p_pc = "copy" /\ cam_face = NULL
  /\ crashed' = TRUE
  /\ UNCHANGED << ui_vars, lock_init, camera_directory, ui_log, shared_vars, p_vars, c_vars >>

\* data.c:336
FD_SetNum ==
  /\ ~crashed /\ p_pc = "setnum"
  /\ cam_face_num' = p_count
  /\ p_pc' = "unlock"
  /\ UNCHANGED << ui_vars, lock_init, camera_directory, ui_log, facelock, cam_face, p_faces,
                  p_arg_count, p_count, c_vars, crashed >>

\* data.c:338
FD_Unlock ==
  /\ ~crashed /\ p_pc = "unlock"
  /\ facelock' = pthread_mutex_unlock(facelock)
  /\ p_pc' = "ret_stored"
  /\ UNCHANGED << ui_vars, lock_init, camera_directory, ui_log, cam_face, cam_face_num, p_faces,
                  p_arg_count, p_count, c_vars, crashed >>

\* data.c:327, 341: the callback returns.
FD_Return ==
  /\ ~crashed
  /\ p_pc \in {"ret_zero", "ret_ignored", "ret_dropped", "ret_stored"}
  /\ p_pc' = "idle" /\ p_faces' = NULL /\ p_arg_count' = 0 /\ p_count' = 0
  /\ UNCHANGED << ui_vars, lock_init, camera_directory, ui_log, shared_vars, c_vars, crashed >>

ProducerStep ==
  FD_Memcpy \/ FD_MemcpyNull \/ FD_SetNum \/ FD_Unlock \/ FD_Return

(***************************************************************************)
(* __camera_preview_cb (data.c:365-379), the consumer.  Each invocation     *)
(* gets a fresh frame; zeroed is the set of Y-plane indices it has set to   *)
(* 0, every other byte keeps the value the platform delivered.              *)
(***************************************************************************)
\* Variant: the row offset added without the stride.
\* data.c:369-375: the indices the loop writes for the face it is given.
MaskWrites(face) ==
  LET begin == face.x + face.y * Stride IN
  { begin + i + j * Stride : i \in 0..(face.width - 1), j \in 0..(face.height - 1) }

\* The Y plane of a preview frame holds width * height bytes
\* (frame->data.double_plane.y, data.c:373).
FrameBytes == camera.resolution[1] * camera.resolution[2]
InFrame(idx) == 0 <= idx /\ idx < FrameBytes

\* data.c:368: the condition, from its first two operands (already read)
\* and cam_data.face_running.
MaskGuard(faces_ok, running) == faces_ok /\ running

\* data.c:367: the platform delivers frames to the registered callback while
\* the camera is in the preview state.
PV_TryLock ==
  /\ ~crashed /\ c_pc = "idle"
  /\ camera.state = "PREVIEW" /\ camera.preview_cb
  /\ LET t == pthread_mutex_trylock(facelock, CONSUMER) IN
       /\ facelock' = t.lock
       /\ c_pc' = IF t.ok THEN "locked" ELSE "failed"
       /\ c_acq' = (t.ok /\ cam_face # NULL /\ cam_face_num > 0
                      /\ cam_data.face_running)
  /\ UNCHANGED << ui_vars, lock_init, camera_directory, ui_log, cam_face, cam_face_num, p_vars,
                  c_guard, zeroed, crashed >>

\* data.c:368, first two operands: cam_face != NULL && cam_face_num > 0.
PV_ReadFaces ==
  /\ ~crashed /\ c_pc = "locked"
  /\ c_guard' = (cam_face # NULL /\ cam_face_num > 0)
  /\ c_pc' = "checked"
  /\ UNCHANGED << ui_vars, lock_init, camera_directory, ui_log, shared_vars, p_vars, zeroed, c_acq,
                  crashed >>

\* data.c:368 third operand (cam_data.face_running), and the loop 369-375
\* over cam_face[0].
PV_Mask ==
  /\ ~crashed /\ c_pc = "checked"
  /\ c_guard' = MaskGuard(c_guard, cam_data.face_running)
  /\ zeroed' = IF c_guard' THEN MaskWrites(cam_face[1]) ELSE {}
  /\ c_pc' = "masked"
  /\ UNCHANGED << ui_vars, lock_init, camera_directory, ui_log, shared_vars, p_vars, c_acq, crashed >>

\* data.c:370-375: the loop stores one byte per iteration, rows outermost;
\* these are the indices it has written when it reaches column i0 of row j0.
MaskWritesBefore(face, i0, j0) ==
  LET begin == face.x + face.y * Stride IN
  { begin + ij[1] + ij[2] * Stride :
      ij \in { p \in (0..(face.width - 1)) \X (0..(face.height - 1)) :
                 p[2] < j0 \/ (p[2] = j0 /\ p[1] < i0) } }

\* data.c:373 with an index outside the Y plane: the write lands outside the
\* frame's memory and may end the process instead of going through.  The
\* stores made before it stay made.
PV_MaskFault ==
  /\ ~crashed /\ c_pc = "checked"
  /\ MaskGuard(c_guard, cam_data.face_running)
  /\ \E i0 \in 0..(cam_face[1].width - 1), j0 \in 0..(cam_face[1].height - 1) :
       /\ ~InFrame(cam_face[1].x + cam_face[1].y * Stride + i0 + j0 * Stride)
       /\ zeroed' = MaskWritesBefore(cam_face[1], i0, j0)
  /\ c_guard' = TRUE
  /\ crashed' = TRUE
  /\ UNCHANGED << ui_vars, lock_init, camera_directory, ui_log, shared_vars,
                  p_vars, c_pc, c_acq >>

\* data.c:377
PV_Unlock ==
  /\ ~crashed /\ c_pc = "masked"
  /\ facelock' = pthread_mutex_unlock(facelock)
  /\ c_pc' = "ret"
  /\ UNCHANGED << ui_vars, lock_init, camera_directory, ui_log, cam_face, cam_face_num, p_vars,
                  c_guard, zeroed, c_acq, crashed >>

\* data.c:379: the callback returns and the frame goes to the display.
PV_Return ==
  /\ ~crashed /\ c_pc \in {"ret", "failed"}
  /\ c_pc' = "idle" /\ c_guard' = FALSE /\ zeroed' = {} /\ c_acq' = FALSE
  /\ UNCHANGED << ui_vars, lock_init, camera_directory, ui_log, shared_vars, p_vars, crashed >>

ConsumerStep == PV_ReadFaces \/ PV_Mask \/ PV_Unlock \/ PV_Return

Next ==
  \/ ClickPreview
  \/ ClickFace
  \/ CloseScreen
  \/ FD_CountZero
  \/ FD_Ignored
  \/ FD_TryLock
  \/ FD_Memcpy
  \/ FD_MemcpyNull
  \/ FD_SetNum
  \/ FD_Unlock
  \/ FD_Return
  \/ PV_TryLock
  \/ PV_ReadFaces
  \/ PV_Mask
  \/ PV_MaskFault
  \/ PV_Unlock
  \/ PV_Return

Spec == Init /\ [][Next]_vars

UINext ==
  \/ UI_ClickPreview
  \/ UI_ClickFace
  \/ UI_FocusChanged
  \/ UI_Captured
  \/ UI_CaptureCompleted
  \/ UI_CloseScreen

UISpec == Init /\ [][UINext]_vars

\* The program while the camera screen stays open: the two buttons and the
\* two callbacks.
ClickNext ==
  \/ ClickPreview
  \/ ClickFace
  \/ FD_CountZero
  \/ FD_Ignored
  \/ FD_TryLock
  \/ FD_Memcpy
  \/ FD_MemcpyNull
  \/ FD_SetNum
  \/ FD_Unlock
  \/ FD_Return
  \/ PV_TryLock
  \/ PV_ReadFaces
  \/ PV_Mask
  \/ PV_MaskFault
  \/ PV_Unlock
  \/ PV_Return

ClickSpec == Init /\ [][ClickNext]_vars

\* The two callback threads are scheduled fairly: a callback that has begun
\* and can take its next step is not held back forever.  When the platform
\* calls a callback is its own choice.
FairSpec ==
  Init /\ [][Next]_vars /\ WF_vars(ProducerStep) /\ WF_vars(ConsumerStep)

TypeOK ==
  /\ cam_data \in [cam_prev : BOOLEAN, face_running : BOOLEAN,
                   g_camera : BOOLEAN]
  /\ widgets \in [preview_bt_text : {"Start preview", "Stop preview"},
                  face_bt_disabled : BOOLEAN]
  /\ camera.state \in CameraStates
  /\ facelock \in {FREE, PRODUCER, CONSUMER}
  /\ cam_face_num \in Int
  /\ p_pc \in {"idle", "copy", "setnum", "unlock", "ret_zero", "ret_ignored",
               "ret_dropped", "ret_stored"}
  /\ c_pc \in {"idle", "locked", "checked", "masked", "ret", "failed"}
  /\ crashed \in BOOLEAN
  /\ camera_directory \in DirectoryStates


(***************************************************************************)
(* Properties                                                               *)
(***************************************************************************)
\* The facelock-protected sections: data.c:335-338 and data.c:368-377.
ProducerInSection == p_pc \in {"copy", "setnum", "unlock"}
ConsumerInSection == c_pc \in {"locked", "checked", "masked"}

\* C1: mutual exclusion on the face buffer.  In every interleaving at most
\* one of the two callbacks is inside its facelock-protected section, so the
\* producer's memcpy and the cam_face_num assignment after it never overlap
\* the consumer's guarded reads and masking loop.
C1_MutualExclusion == ~(ProducerInSection /\ ConsumerInSection)

\* The producer is inside its section while the consumer's trylock has just
\* been refused.
C1_Witness == ProducerInSection /\ c_pc = "failed"

\* C2 (as claimed): every change of cam_face_num or of the cam_face entries
\* is made by a holder of facelock, so neither changes while the preview
\* callback holds facelock.
C2_AllWritesLocked ==
  [][ /\ (cam_face_num' # cam_face_num \/ cam_face' # cam_face)
           => (facelock = PRODUCER /\ facelock' = PRODUCER)
      /\ (facelock = CONSUMER /\ facelock' = CONSUMER)
           => (cam_face_num' = cam_face_num /\ cam_face' = cam_face) ]_vars

\* C3: the face list is bounded.  Whatever counts are delivered (negative,
\* zero, above the capacity), cam_face_num stays within
\* 0..MAXIMUM_FACE_NUMBER and the number of entries a callback copies is at
\* most MAXIMUM_FACE_NUMBER, the capacity of cam_face.
C3_FaceListBounded ==
  /\ cam_face_num \in 0..MAXIMUM_FACE_NUMBER
  /\ cam_face # NULL => DOMAIN cam_face = 1..MAXIMUM_FACE_NUMBER
  /\ p_pc \in {"copy", "setnum", "unlock", "ret_stored"}
       => p_count \in 1..MAXIMUM_FACE_NUMBER

\* A result with more faces than the capacity has been stored, clamped.
C3_Witness ==
  /\ p_pc = "ret_stored"
  /\ p_arg_count > MAXIMUM_FACE_NUMBER
  /\ cam_face_num = MAXIMUM_FACE_NUMBER

\* C4 (as claimed): button handlers run to completion, so in every state no
\* handler is executing; cam_prev is true exactly when the camera is in
\* CAMERA_STATE_PREVIEW.
C4_CamPrevTracksPreview ==
  cam_data.cam_prev <=> (camera.state = "PREVIEW")

\* C5: after creation and after any sequence of preview-button clicks, with
\* any platform call failing, the "Face Detect" button is enabled exactly
\* when cam_prev is true and the preview button reads "Stop preview" exactly
\* when cam_prev is true.
C5_ButtonsFollowCamPrev ==
  /\ (~widgets.face_bt_disabled) <=> cam_data.cam_prev
  /\ (widgets.preview_bt_text = "Stop preview") <=> cam_data.cam_prev

\* The preview has been started and stopped again: the callback registered
\* at start-up is unset, which only a stop click does.
C5_Witness ==
  /\ lock_init
  /\ ~camera.preview_cb
  /\ ~cam_data.cam_prev
  /\ widgets.face_bt_disabled
  /\ widgets.preview_bt_text = "Start preview"

\* The index set the claim states for a face (x, y, width, height).
ClaimedMask(face) ==
  { (face.x + i) + (face.y + j) * 640 :
      i \in 0..(face.width - 1), j \in 0..(face.height - 1) }

\* C6 (as claimed): pixel masking result.  When the preview callback
\* acquired facelock with cam_face non-NULL, cam_face_num > 0 and
\* face_running true, the Y-plane indices it has set to 0 when it reaches
\* the unlock are exactly the rectangle of cam_face[0] laid out with a
\* stride of 640.
C6_MaskAfterAcquisition ==
  (c_pc = "masked" /\ c_acq) => zeroed = ClaimedMask(cam_face[1])

\* C7: neither callback blocks on or leaks facelock.  The mutex is held
\* exactly while its owner is inside its section, so it is free whenever
\* neither callback is executing; a callback is never made to wait for the
\* mutex (its trylock step can be taken whoever holds it), and a callback in
\* progress always has a next step, so no interleaving deadlocks.
C7_LockNeverLeaks ==
  /\ (facelock = PRODUCER) <=> ProducerInSection
  /\ (facelock = CONSUMER) <=> ConsumerInSection
  /\ (p_pc = "idle" /\ c_pc = "idle") => facelock = FREE
  /\ (~crashed /\ p_pc = "idle" /\ camera.face_detection) => ENABLED FD_TryLock
  /\ (~crashed /\ c_pc = "idle" /\ camera.state = "PREVIEW" /\ camera.preview_cb)
       => ENABLED PV_TryLock
  /\ (~crashed /\ p_pc # "idle") => ENABLED ProducerStep
  /\ (~crashed /\ c_pc # "idle") => ENABLED ConsumerStep

\* Both callbacks have returned, the mutex is free and a stored result shows
\* that the producer took and released it.
C7_Witness ==
  /\ p_pc = "idle" /\ c_pc = "idle"
  /\ facelock = FREE
  /\ cam_face_num > 0

\* C8: producer result.  When the callback is called with count > 0 and
\* faces non-NULL and its trylock succeeds, on return cam_face_num is
\* min(count, MAXIMUM_FACE_NUMBER) and the first cam_face_num entries of
\* cam_face are those of faces; both updates are made in one facelock
\* section, so the consumer is never inside its section in the state between
\* the two updates.
C8_ProducerResult ==
  /\ p_pc = "ret_stored" =>
       /\ cam_face_num = Min(p_arg_count, MAXIMUM_FACE_NUMBER)
       /\ \A k \in 1..cam_face_num : cam_face[k] = p_faces[k]
  /\ p_pc \in {"copy", "setnum", "unlock"} => facelock = PRODUCER
  /\ p_pc = "setnum" => ~ConsumerInSection

\* A one-face result has been stored over an earlier two-face result.
C8_Witness ==
  /\ p_pc = "ret_stored"
  /\ p_arg_count = 1
  /\ cam_face[2] # Uninit
  /\ cam_face[1] # cam_face[2]

\* C9: contention drops the update.  A callback that calls trylock while the
\* other holds facelock does not enter its section; such a face-detection
\* invocation leaves cam_face and cam_face_num as they were, and such a
\* preview invocation leaves the frame unmodified.
C9_ContentionDrops ==
  [][ /\ (p_pc = "idle" /\ p_pc' \in {"copy", "ret_dropped"} /\ facelock # FREE)
           => (p_pc' = "ret_dropped" /\ facelock' = facelock)
      /\ (p_pc' = "ret_dropped" \/ p_pc = "ret_dropped")
           => (cam_face' = cam_face /\ cam_face_num' = cam_face_num)
      /\ (c_pc = "idle" /\ c_pc' # "idle" /\ facelock # FREE)
           => (c_pc' = "failed" /\ facelock' = facelock)
      /\ (c_pc' = "failed" \/ c_pc = "failed")
           => (zeroed = {} /\ zeroed' = {}) ]_vars

\* A detection result is being discarded while the consumer masks a frame
\* with the faces recorded earlier.
C9_Witness ==
  /\ p_pc = "ret_dropped"
  /\ c_pc = "masked"
  /\ zeroed # {}

\* C10: degenerate detection results.  count == 0 sets cam_face_num to 0 and
\* leaves the cam_face entries and facelock alone, whether or not facelock
\* is held; count < 0, or count > 0 with faces == NULL, changes neither
\* cam_face_num nor cam_face and makes no attempt on facelock.
C10_DegenerateResults ==
  [][ /\ (p_pc = "idle" /\ p_pc' # "idle" /\ p_arg_count' = 0)
           => /\ p_pc' = "ret_zero"
              /\ cam_face_num' = 0
              /\ cam_face' = cam_face
              /\ facelock' = facelock
      /\ (p_pc = "idle" /\ p_pc' # "idle"
            /\ (p_arg_count' < 0 \/ (p_arg_count' > 0 /\ p_faces' = NULL)))
           => /\ p_pc' = "ret_ignored"
              /\ UNCHANGED << facelock, cam_face, cam_face_num >>
      /\ p_pc \in {"ret_zero", "ret_ignored"}
           => (cam_face' = cam_face /\ cam_face_num' = cam_face_num) ]_vars

\* count == 0 has been delivered while the consumer holds facelock and a
\* face is recorded in cam_face: the entries stay, the number is 0.
C10_Witness ==
  /\ p_pc = "ret_zero"
  /\ facelock = CONSUMER
  /\ cam_face_num = 0
  /\ cam_face # NULL /\ cam_face[1] # Uninit

\* C15: face detection is only flagged as running while the preview is
\* running.  After any sequence of preview-button and face-button clicks (a
\* face-button click only while that button is enabled, any platform call
\* failing), face_running implies cam_prev; a successful "Stop preview"
\* leaves face_running false.
C15_FaceRunningImpliesCamPrev ==
  cam_data.face_running => cam_data.cam_prev

\* The preview has been stopped by a click while a detection callback that
\* was delivered during the detection run is still in progress: both flags
\* are false and the platform's face detection has ended with the preview.
C15_Witness ==
  /\ p_pc = "copy"
  /\ ~cam_data.cam_prev
  /\ ~cam_data.face_running
  /\ camera.state = "CREATED"
  /\ ~camera.face_detection

\* C16 (as claimed): whenever cam_prev is true the preview-frame callback is
\* registered with the camera, whichever of the handler's platform calls
\* fail.
C16_CamPrevImpliesCallbackSet ==
  cam_data.cam_prev => camera.preview_cb

\* C18 (as claimed): whenever the detection callback reaches its memcpy,
\* cam_face is non-NULL, on every path through create_buttons_in_main_window
\* that leaves the buttons usable.
C18_BufferAllocatedBeforeCopy ==
  p_pc = "copy" => cam_face # NULL

\* C19 (as claimed): pthread_mutex_init(&facelock) has completed before any
\* trylock of either callback, on every path through
\* create_buttons_in_main_window.
C19_LockInitBeforeUse ==
  (ProducerInSection \/ ConsumerInSection
     \/ p_pc = "ret_dropped" \/ c_pc = "failed") => lock_init

\* C20 (as claimed): cam_face_num > 0 never survives from an earlier
\* detection run into a new one: when face_running goes from false to true
\* no face is recorded, so no frame is masked before a result of the new run
\* has been stored.
C20_NoStaleFaceAtStart ==
  [][ (~cam_data.face_running /\ cam_data.face_running') => cam_face_num' = 0 ]_vars

\* C11 (as claimed): the preview callback modifies the frame only if it
\* acquired facelock and, at the moment of the acquisition, cam_face was
\* non-NULL, cam_face_num > 0 and face_running true.
C11_GuardAtAcquisition ==
  zeroed # {} => c_acq

\* A face rectangle that lies inside the preview frame.
RectInFrame(face) ==
  /\ face.x >= 0 /\ face.y >= 0
  /\ face.x + face.width <= camera.resolution[1]
  /\ face.y + face.height <= camera.resolution[2]

\* C17 (as claimed): for a frame of the preview resolution selected at
\* start-up (the last supported one with width < 700) and a recorded face
\* lying inside that frame, every index the preview callback writes is
\* within 0 .. W*H - 1.
C17_WritesInsideFrame ==
  (c_pc = "masked" /\ c_guard /\ RectInFrame(cam_face[1]))
    => \A idx \in zeroed : InFrame(idx)

\* C12: every click of the "Face Detect" button makes exactly one platform
\* call, camera_stop_face_detection when face_running is set and
\* camera_start_face_detection otherwise, and face_running is flipped exactly
\* when that call returned no error; after an error it keeps its value.
C12_FaceToggle ==
  [][ui_log'.handler = "__camera_cb_face" =>
       LET c == ui_log'.calls IN
         /\ Len(c) = 1
         /\ c[1].fn = IF cam_data.face_running
                      THEN "camera_stop_face_detection"
                      ELSE "camera_start_face_detection"
         /\ c[1].from = camera.state
         /\ (cam_data'.face_running # cam_data.face_running) <=> ~c[1].err
         /\ cam_data'.cam_prev = cam_data.cam_prev]_vars

\* A click whose camera_stop_face_detection failed: face_running is still set.
C12_Witness ==
  /\ ui_log.handler = "__camera_cb_face"
  /\ ui_log.calls[1].fn = "camera_stop_face_detection"
  /\ ui_log.calls[1].err
  /\ cam_data.face_running

\* C13: a click on the preview button calls camera_start_preview then
\* camera_set_preview_cb while cam_prev is false, and camera_unset_preview_cb
\* then camera_stop_preview while it is true; after a failed first call the
\* second is not made; after any failed call cam_prev, face_running, the
\* label and the face button are as before; when both calls succeed cam_prev
\* is flipped and, on stop, face_running is cleared.
C13_PreviewToggle ==
  [][ui_log'.handler = "__camera_cb_preview" =>
       LET c == ui_log'.calls
           first == IF cam_data.cam_prev THEN "camera_unset_preview_cb"
                    ELSE "camera_start_preview"
           second == IF cam_data.cam_prev THEN "camera_stop_preview"
                     ELSE "camera_set_preview_cb"
           failed == \E i \in 1..Len(c) : c[i].err
       IN /\ Len(c) \in 1..2
          /\ c[1].fn = first /\ c[1].from = camera.state
          /\ (Len(c) = 2) <=> ~c[1].err
          /\ Len(c) = 2 => c[2].fn = second
          /\ failed => cam_data' = cam_data /\ widgets' = widgets
          /\ ~failed =>
               /\ cam_data'.cam_prev = ~cam_data.cam_prev
               /\ cam_data'.face_running =
                    (cam_data.face_running /\ ~cam_data.cam_prev)]_vars

\* A stop click whose camera_unset_preview_cb succeeded and whose
\* camera_stop_preview failed, with face detection on: both flags, the label
\* and the face button are as they were.
C13_Witness ==
  /\ ui_log.handler = "__camera_cb_preview"
  /\ Len(ui_log.calls) = 2
  /\ ui_log.calls[1].fn = "camera_unset_preview_cb"
  /\ ui_log.calls[2].err
  /\ cam_data.cam_prev /\ cam_data.face_running
  /\ widgets.preview_bt_text = "Stop preview" /\ ~widgets.face_bt_disabled

\* The camera states a preview call is legal in.
CallLegal(c) ==
  /\ c.fn = "camera_start_preview" => c.from \in {"CREATED", "CAPTURED"}
  /\ c.fn = "camera_stop_preview" => c.from = "PREVIEW"

\* C14: every run of _camera_completed_cb makes exactly five platform calls,
\* start, stop, start, stop, start preview, whatever the earlier ones
\* returned; when it starts in CAPTURED and all five succeed the camera ends
\* in PREVIEW and every call was made in a state it is legal in.
C14_RestartSequence ==
  [][ui_log'.handler = "_camera_completed_cb" =>
       LET c == ui_log'.calls IN
         /\ [i \in 1..Len(c) |-> c[i].fn] =
              << "camera_start_preview", "camera_stop_preview",
                 "camera_start_preview", "camera_stop_preview",
                 "camera_start_preview" >>
         /\ c[1].from = camera.state
         /\ (camera.state = "CAPTURED" /\ \A i \in 1..Len(c) : ~c[i].err) =>
              /\ camera'.state = "PREVIEW"
              /\ \A i \in 1..Len(c) : CallLegal(c[i])]_vars

\* A run whose second call failed and whose later calls were still made.
C14_Witness ==
  /\ ui_log.handler = "_camera_completed_cb"
  /\ Len(ui_log.calls) = 5
  /\ ui_log.calls[2].err
  /\ ~ui_log.calls[1].err

\* The preview and the face detection are both running and the process is
\* alive.
Running ==
  /\ cam_data.cam_prev /\ cam_data.face_running
  /\ camera.state = "PREVIEW" /\ camera.preview_cb /\ camera.face_detection
  /\ ~crashed

\* __camera_face_detected_cb has been called with count > 0 and faces != NULL
\* and has made its trylock (data.c:334).
Delivered == p_pc \in {"copy", "ret_dropped"}

\* __camera_preview_cb has been called with a frame and has made its trylock
\* (data.c:367).
Frame == c_pc \in {"locked", "failed"}

\* An invocation of __camera_face_detected_cb has stored its result.
Stored == p_pc = "ret_stored"

\* An invocation of __camera_preview_cb has masked its frame.
Masked == c_pc = "masked" /\ zeroed # {}

\* C21 (as claimed): when the preview and the face detection stay running
\* and the platform keeps delivering face-detection callbacks with count > 0
\* and preview frames, with both callback threads weakly fair, some detection
\* result is eventually stored in cam_face and a later preview frame is
\* eventually masked with it.
C21_NotStarved ==
  (<>[]Running /\ []<>Delivered /\ []<>Frame) => <>(Stored /\ <>Masked)

====
